---- MODULE Spec2Model ----
(***************************************************************************)
(* Projeto Gaia v3.0 (src/Gaya_v3.py): the agent core                      *)
(*   Sentido, Dominio, MotorEvolutivo, NucleoEtico, Gaia.viver_um_ciclo.   *)
(*                                                                         *)
(* Numbers.  The program computes with floats; the model computes with     *)
(* exact rationals, each kept as an integer numerator over a fixed         *)
(* denominator:                                                            *)
(*   random.random() / np.random.rand   k / RandDenom,  k in 0..RandDenom-1*)
(*   a sensor reading                   n / RandDenom                      *)
(*   a weight (pesos[s][a])             n / PesoDen                        *)
(*   a raw preference (decisao_bruta)   n / (RandDenom * PesoDen)          *)
(*   the dissonance                     n / DissDen                        *)
(*   a final preference (decisao_final) n / (A * DissDen * RandDenom *     *)
(*                                           PesoDen),  A = number of      *)
(*                                           actions                       *)
(* Indices are 1-based in sequences; np.argmax and list indexing keep      *)
(* Python's 0-based indices (argmax, PyIndex).                             *)
(***************************************************************************)
EXTENDS Integers, Sequences, FiniteSets, TLC

\* ------------------------------------------------------------------ bounds
\* Largest number of sensors of a Dominio.
MaxSentidos == 2
\* Largest number of actions of a Dominio.
MaxAcoes == 3
\* Largest number of viver_um_ciclo calls started in one behaviour.
MaxCiclos == 2
\* Resolution of a random draw: random.random() is k / RandDenom.
RandDenom == 20

\* ------------------------------------------------------- program constants
\* evoluir(self, taxa_mutacao=0.01): the default rate, in hundredths.
TAXA_MUTACAO_PADRAO == 1
\* Sentido('dano_sistemico', lambda: random.random() * 0.1): 0.1 = 1 / 10.
DANO_DIVISOR == 10

\* (rand - 0.5) * (taxa / 100) = (2k - RandDenom) * taxa / (200 * RandDenom)
PesoDen == 200 * RandDenom
\* dano + bem = k1 / (DANO_DIVISOR * RandDenom) + k2 / RandDenom
DissDen == DANO_DIVISOR * RandDenom

\* ------------------------------------------------------------ input samples
\* Numerators of the random draws that are tried: 0.0, a middle value
\* (0.5 when RandDenom = 20) and the largest value below 1.0.
AmostrasRand == {0, 10, RandDenom - 1}

\* Numerators of the readings a domain sensor's funcao_leitura may return
\* (any real: -1/RandDenom, 0.0 and 1.0).
Leituras == {-1, 0, RandDenom}

\* The action vocabulary a Dominio draws its acoes_possiveis from: the three
\* of dominio_web and one more.
NomesAcoes ==
  <<"LANCAR_NOVO_PRODUTO", "FOCAR_EM_RETENCAO", "EXPANDIR_PARA_NOVO_MERCADO",
    "OUTRA_ACAO">>

\* np.random.rand(S, A) draws every entry independently; the matrices tried
\* are these patterns of numerators.
Padroes == {"baixo", "alto", "coluna", "xadrez", "rampa"}

AmostraPadrao(p, s, a) ==
  CASE p = "baixo"  -> 0
    [] p = "alto"   -> RandDenom - 1
    [] p = "coluna" -> IF a = 1 THEN 0 ELSE RandDenom - 1
    [] p = "xadrez" -> IF (s + a) % 2 = 0 THEN RandDenom - 1 ELSE 10
    [] p = "rampa"  -> a

\* np.random.rand(S, A) as numerators over RandDenom.
RandMatriz(p, S, A) == [s \in 1..S |-> [a \in 1..A |-> AmostraPadrao(p, s, a)]]

\* -------------------------------------------------------------------- state
VARIABLES
  fase,            \* "inicio" | "dominio" (Dominio built) | "gaia" (Gaia built)
  dominio,         \* Dominio: [sentidos: names, acoes_possiveis: strings]
  pesos,           \* MotorEvolutivo.pesos: S rows of A numerators over PesoDen
  pc,              \* per caller: position inside viver_um_ciclo
  realidade_vetor, \* per caller: local realidade_vetor
  decisao_bruta,   \* per caller: local decisao_bruta
  dissonancia,     \* per caller: local dissonancia
  decisao_final,   \* per caller: local decisao_final
  retorno,         \* per caller: what the last call gave back
  pesos_iniciais,  \* history: pesos as Gaia.__init__ drew them
  pesos_antes,     \* history, per caller: pesos when its current call began
  pesos_vistos,    \* history, per caller: pesos as its pensar read them
  evolucoes,       \* history, per caller: evoluir calls made by its current call
  n_evoluir,       \* history: evoluir calls made in all
  deriva,          \* history: sum of taxa_mutacao / 2 over those calls, over PesoDen
  iniciados        \* history: calls the hosts have started in all

vars ==
  <<fase, dominio, pesos, pc, realidade_vetor, decisao_bruta, dissonancia,
    decisao_final, retorno, pesos_iniciais, pesos_antes, pesos_vistos,
    evolucoes, n_evoluir, deriva, iniciados>>

locais ==
  <<realidade_vetor, decisao_bruta, dissonancia, decisao_final, pesos_vistos>>

Chamadores == DOMAIN pc

\* len(dominio.sentidos), len(dominio.acoes_possiveis)
NSentidos == Len(dominio.sentidos)
NAcoes == Len(dominio.acoes_possiveis)

\* ------------------------------------------------------------ pure helpers
RECURSIVE Soma(_)
Soma(seq) == IF seq = <<>> THEN 0 ELSE Head(seq) + Soma(Tail(seq))

Abs(x) == IF x < 0 THEN -x ELSE x

\* A dict insertion d[k] = v: a new key goes last, an old key keeps its place.
DictPut(d, k, v) ==
  IF \E i \in 1..Len(d) : d[i][1] = k
  THEN [i \in 1..Len(d) |-> IF d[i][1] = k THEN <<k, v>> ELSE d[i]]
  ELSE Append(d, <<k, v>>)

\* {s.nome: s.ler() for s in sentidos}, the first n sensors done.
RECURSIVE DictDe(_, _, _)
DictDe(nomes, leituras, n) ==
  IF n = 0 THEN <<>>
  ELSE DictPut(DictDe(nomes, leituras, n - 1), nomes[n], leituras[n])

\* Dominio.observar_realidade with the sensors returning leituras.
observar_realidade(nomes, leituras) == DictDe(nomes, leituras, Len(nomes))

\* np.array(list(realidade_dict.values()))
ValoresDe(d) == [i \in 1..Len(d) |-> d[i][2]]

\* MotorEvolutivo.pensar: np.dot(realidade_vetor, self.pesos), for a vector
\* whose length is the number of rows of W; A is W.shape[1].
pensar(vetor, W, A) ==
  [a \in 1..A |-> Soma([s \in 1..Len(W) |-> vetor[s] * W[s][a]])]

\* NucleoEtico.calcular_dissonancia: sum(realidade_etica.values()) of
\* dano = k1 / (DANO_DIVISOR * RandDenom) and bem = k2 / RandDenom.
calcular_dissonancia(k1, k2) == k1 + DANO_DIVISOR * k2

\* A slip: the penalty is taken from each action's own score,
\* decisao_bruta - dissonancia * decisao_bruta.
temperar_por_acao(bruta, d) ==
  [a \in 1..Len(bruta) |-> Len(bruta) * (DissDen - d) * bruta[a]]

\* A slip: np.sum in place of np.mean,
\* decisao_bruta - dissonancia * np.sum(decisao_bruta).
temperar_com_soma(bruta, d) ==
  [a \in 1..Len(bruta) |->
     Len(bruta) * DissDen * bruta[a] - d * Len(bruta) * Soma(bruta)]

\* decisao_bruta - dissonancia * np.mean(decisao_bruta); the numerators of
\* the result are over Len(bruta) * DissDen times bruta's denominator.
temperar(bruta, d) ==
  [a \in 1..Len(bruta) |-> Len(bruta) * DissDen * bruta[a] - d * Soma(bruta)]

\* np.argmax scans the vector once and moves on only to a strictly larger
\* value; i is the next position to look at, melhor the position of the
\* largest value so far (both 1-based).
RECURSIVE argmax_de(_, _, _)
argmax_de(v, i, melhor) ==
  IF i > Len(v) THEN melhor
  ELSE argmax_de(v, i + 1, IF v[i] > v[melhor] THEN i ELSE melhor)

\* A slip: the scan moves on to an equal value too, so the last maximum wins.
RECURSIVE argmax_ultimo_de(_, _, _)
argmax_ultimo_de(v, i, melhor) ==
  IF i > Len(v) THEN melhor
  ELSE argmax_ultimo_de(v, i + 1, IF v[i] >= v[melhor] THEN i ELSE melhor)

argmax_ultimo(v) == argmax_ultimo_de(v, 2, 1) - 1

\* np.argmax of a non-empty vector, 0-based.
argmax(v) == argmax_de(v, 2, 1) - 1

ErroSensor == [tipo |-> "erro", valor |-> "SensorError"]
ErroFormas == [tipo |-> "erro", valor |-> "ValueError: shapes not aligned"]
ErroArgmaxVazio ==
  [tipo |-> "erro", valor |-> "ValueError: argmax of an empty sequence"]
ErroIndice == [tipo |-> "erro", valor |-> "IndexError: list index out of range"]
Pendente == [tipo |-> "pendente", valor |-> ""]

\* lista[i] of a Python list, i 0-based, negative i counted from the end.
PyIndex(lista, i) ==
  IF i >= 0 /\ i < Len(lista) THEN [tipo |-> "acao", valor |-> lista[i + 1]]
  ELSE IF i < 0 /\ -i <= Len(lista)
       THEN [tipo |-> "acao", valor |-> lista[Len(lista) + i + 1]]
       ELSE ErroIndice

\* A slip: the index is taken one too far, acoes_possiveis[argmax + 1].
selecionar_indice_seguinte(acoes, final) ==
  IF Len(final) = 0 THEN ErroArgmaxVazio ELSE PyIndex(acoes, argmax(final) + 1)

\* self.dominio.acoes_possiveis[np.argmax(decisao_final)]
selecionar(acoes, final) ==
  IF Len(final) = 0 THEN ErroArgmaxVazio ELSE PyIndex(acoes, argmax(final))

\* taxa_mutacao / 2 as a numerator over PesoDen, taxa in hundredths.
MeiaTaxa(taxa) == taxa * RandDenom

\* A slip: the draw is not centred, np.random.rand(*shape) * taxa_mutacao.
mutacao_sem_centro(rand, taxa) ==
  [s \in 1..Len(rand) |->
     [a \in 1..Len(rand[s]) |-> 2 * rand[s][a] * taxa]]

\* mutacao = (np.random.rand(*shape) - 0.5) * taxa_mutacao, as numerators
\* over PesoDen; rand holds the numerators of the draws, taxa is in hundredths.
mutacao(rand, taxa) ==
  [s \in 1..Len(rand) |->
     [a \in 1..Len(rand[s]) |-> (2 * rand[s][a] - RandDenom) * taxa]]

\* MotorEvolutivo.evoluir: self.pesos += mutacao
evoluir(W, rand, taxa) ==
  [s \in 1..Len(W) |->
     [a \in 1..Len(W[s]) |-> W[s][a] + mutacao(rand, taxa)[s][a]]]

\* MotorEvolutivo.__init__: np.random.rand(n_sentidos, n_acoes) over PesoDen.
pesos_novos(rand) ==
  [s \in 1..Len(rand) |->
     [a \in 1..Len(rand[s]) |-> (PesoDen \div RandDenom) * rand[s][a]]]

\* ---------------------------------------------------------- construction
\* The sensor names tried for S sensors: all distinct, or the last sensor
\* carrying the first one's name.
NomesSentidos(S) ==
  { [i \in 1..S |-> i], [i \in 1..S |-> IF i = S THEN 1 ELSE i] }

\* Dominio(nome, sentidos_iniciais, acoes_possiveis): stores its arguments.
NovoDominio(S, nomes, A) ==
  /\ fase = "inicio"
  /\ fase' = "dominio"
  /\ dominio' = [sentidos |-> nomes,
                 acoes_possiveis |-> [i \in 1..A |-> NomesAcoes[i]]]
  /\ UNCHANGED <<pesos, pc, locais, retorno, pesos_iniciais, pesos_antes,
                 evolucoes, n_evoluir, deriva, iniciados>>

\* Gaia(dominio): builds MotorEvolutivo(len(sentidos), len(acoes_possiveis)).
NovaGaia(p) ==
  /\ fase = "dominio"
  /\ fase' = "gaia"
  /\ pesos' = pesos_novos(RandMatriz(p, NSentidos, NAcoes))
  /\ pesos_iniciais' = pesos'
  /\ UNCHANGED <<dominio, pc, locais, retorno, pesos_antes, evolucoes,
                 n_evoluir, deriva, iniciados>>

\* ------------------------------------------------------- viver_um_ciclo
\* A caller enters viver_um_ciclo.
Iniciar(t) ==
  /\ fase = "gaia"
  /\ pc[t] = "idle"
  /\ iniciados < MaxCiclos
  /\ iniciados' = iniciados + 1
  /\ pc' = [pc EXCEPT ![t] = "observing"]
  /\ realidade_vetor' = [realidade_vetor EXCEPT ![t] = <<>>]
  /\ decisao_bruta' = [decisao_bruta EXCEPT ![t] = <<>>]
  /\ dissonancia' = [dissonancia EXCEPT ![t] = 0]
  /\ decisao_final' = [decisao_final EXCEPT ![t] = <<>>]
  /\ pesos_vistos' = [pesos_vistos EXCEPT ![t] = <<>>]
  /\ retorno' = [retorno EXCEPT ![t] = Pendente]
  /\ pesos_antes' = [pesos_antes EXCEPT ![t] = pesos]
  /\ evolucoes' = [evolucoes EXCEPT ![t] = 0]
  /\ UNCHANGED <<fase, dominio, pesos, pesos_iniciais, n_evoluir, deriva>>

\* The call leaves viver_um_ciclo by an exception.
Abortar(t, erro) ==
  /\ pc' = [pc EXCEPT ![t] = "idle"]
  /\ retorno' = [retorno EXCEPT ![t] = erro]

\* realidade_dict = self.dominio.observar_realidade(); realidade_vetor = ...
Observar(t, leituras) ==
  /\ pc[t] = "observing"
  /\ realidade_vetor' =
       [realidade_vetor EXCEPT
          ![t] = ValoresDe(observar_realidade(dominio.sentidos, leituras))]
  /\ pc' = [pc EXCEPT ![t] = "scoring"]
  /\ UNCHANGED <<fase, dominio, pesos, decisao_bruta, dissonancia,
                 decisao_final, retorno, pesos_iniciais, pesos_antes,
                 pesos_vistos, evolucoes, n_evoluir, deriva, iniciados>>

\* A domain sensor's funcao_leitura raises inside observar_realidade.
ObservarFalha(t) ==
  /\ pc[t] = "observing"
  /\ NSentidos >= 1
  /\ Abortar(t, ErroSensor)
  /\ UNCHANGED <<fase, dominio, pesos, locais, pesos_iniciais, pesos_antes,
                 evolucoes, n_evoluir, deriva, iniciados>>

\* A slip: self.motor.evoluir() is called right after pensar, before the
\* imperative sensors are read.
PensarEEvoluir(t) ==
  /\ pc[t] = "scoring"
  /\ IF Len(realidade_vetor[t]) = Len(pesos)
     THEN /\ decisao_bruta' =
               [decisao_bruta EXCEPT
                  ![t] = pensar(realidade_vetor[t], pesos, NAcoes)]
          /\ pesos_vistos' = [pesos_vistos EXCEPT ![t] = pesos]
          /\ \E p \in Padroes :
               pesos' = evoluir(pesos, RandMatriz(p, Len(pesos), NAcoes),
                                TAXA_MUTACAO_PADRAO)
          /\ evolucoes' = [evolucoes EXCEPT ![t] = @ + 1]
          /\ n_evoluir' = n_evoluir + 1
          /\ deriva' = deriva + MeiaTaxa(TAXA_MUTACAO_PADRAO)
          /\ pc' = [pc EXCEPT ![t] = "tempering"]
          /\ UNCHANGED retorno
     ELSE /\ Abortar(t, ErroFormas)
          /\ UNCHANGED <<decisao_bruta, pesos_vistos, pesos, evolucoes,
                         n_evoluir, deriva>>
  /\ UNCHANGED <<fase, dominio, realidade_vetor, dissonancia, decisao_final,
                 pesos_iniciais, pesos_antes, iniciados>>

\* decisao_bruta = self.motor.pensar(realidade_vetor); np.dot raises when the
\* vector's length is not the number of rows of pesos.
Pensar(t) ==
  /\ pc[t] = "scoring"
  /\ IF Len(realidade_vetor[t]) = Len(pesos)
     THEN /\ decisao_bruta' =
               [decisao_bruta EXCEPT
                  ![t] = pensar(realidade_vetor[t], pesos, NAcoes)]
          /\ pesos_vistos' = [pesos_vistos EXCEPT ![t] = pesos]
          /\ pc' = [pc EXCEPT ![t] = "tempering"]
          /\ UNCHANGED retorno
     ELSE /\ Abortar(t, ErroFormas)
          /\ UNCHANGED <<decisao_bruta, pesos_vistos>>
  /\ UNCHANGED <<fase, dominio, pesos, realidade_vetor, dissonancia,
                 decisao_final, pesos_iniciais, pesos_antes, evolucoes,
                 n_evoluir, deriva, iniciados>>

\* A slip: the call goes from tempering straight to its return statement
\* and never calls evoluir.
TemperarSemEvoluir(t, k1, k2) ==
  /\ pc[t] = "tempering"
  /\ dissonancia' = [dissonancia EXCEPT ![t] = calcular_dissonancia(k1, k2)]
  /\ decisao_final' =
       [decisao_final EXCEPT
          ![t] = temperar(decisao_bruta[t], calcular_dissonancia(k1, k2))]
  /\ pc' = [pc EXCEPT ![t] = "selecting"]
  /\ UNCHANGED <<fase, dominio, pesos, realidade_vetor, decisao_bruta,
                 retorno, pesos_iniciais, pesos_antes, pesos_vistos,
                 evolucoes, n_evoluir, deriva, iniciados>>

\* realidade_etica_dict = observar_realidade_etica(); dissonancia = ...;
\* decisao_final = decisao_bruta - dissonancia * np.mean(decisao_bruta)
Temperar(t, k1, k2) ==
  /\ pc[t] = "tempering"
  /\ dissonancia' = [dissonancia EXCEPT ![t] = calcular_dissonancia(k1, k2)]
  /\ decisao_final' =
       [decisao_final EXCEPT
          ![t] = temperar(decisao_bruta[t], calcular_dissonancia(k1, k2))]
  /\ pc' = [pc EXCEPT ![t] = "adapting"]
  /\ UNCHANGED <<fase, dominio, pesos, realidade_vetor, decisao_bruta,
                 retorno, pesos_iniciais, pesos_antes, pesos_vistos,
                 evolucoes, n_evoluir, deriva, iniciados>>

\* An imperative Sentido's funcao_leitura raises inside
\* observar_realidade_etica.  (NucleoEtico reads whatever Sentido objects its
\* imperativos list holds; the two lambdas Gaia.__init__ installs only call
\* random.random().)
TemperarFalha(t) ==
  /\ pc[t] = "tempering"
  /\ Abortar(t, ErroSensor)
  /\ UNCHANGED <<fase, dominio, pesos, locais, pesos_iniciais, pesos_antes,
                 evolucoes, n_evoluir, deriva, iniciados>>

\* self.motor.evoluir()
Evoluir(t, p) ==
  /\ pc[t] = "adapting"
  /\ pesos' = evoluir(pesos, RandMatriz(p, Len(pesos), NAcoes),
                      TAXA_MUTACAO_PADRAO)
  /\ evolucoes' = [evolucoes EXCEPT ![t] = @ + 1]
  /\ n_evoluir' = n_evoluir + 1
  /\ deriva' = deriva + MeiaTaxa(TAXA_MUTACAO_PADRAO)
  /\ pc' = [pc EXCEPT ![t] = "selecting"]
  /\ UNCHANGED <<fase, dominio, locais, retorno, pesos_iniciais, pesos_antes,
                 iniciados>>

\* A slip: the return statement scores again, with the weights as they are
\* after evoluir, instead of using decisao_final.
SelecionarRecalculando(t) ==
  /\ pc[t] = "selecting"
  /\ retorno' =
       [retorno EXCEPT
          ![t] = selecionar(dominio.acoes_possiveis,
                            temperar(pensar(realidade_vetor[t], pesos, NAcoes),
                                     dissonancia[t]))]
  /\ pc' = [pc EXCEPT ![t] = "idle"]
  /\ UNCHANGED <<fase, dominio, pesos, locais, pesos_iniciais, pesos_antes,
                 evolucoes, n_evoluir, deriva, iniciados>>

\* return self.dominio.acoes_possiveis[np.argmax(decisao_final)]
Selecionar(t) ==
  /\ pc[t] = "selecting"
  /\ retorno' =
       [retorno EXCEPT
          ![t] = selecionar(dominio.acoes_possiveis, decisao_final[t])]
  /\ pc' = [pc EXCEPT ![t] = "idle"]
  /\ UNCHANGED <<fase, dominio, pesos, locais, pesos_iniciais, pesos_antes,
                 evolucoes, n_evoluir, deriva, iniciados>>

\* --------------------------------------------- a direct call of evoluir
\* A host thread that is not inside viver_um_ciclo calls
\* gaia.motor.evoluir(taxa).
Mutar(taxa, p) ==
  /\ fase = "gaia"
  /\ \A t \in Chamadores : pc[t] = "idle"
  /\ iniciados < MaxCiclos
  /\ iniciados' = iniciados + 1
  /\ pesos' = evoluir(pesos, RandMatriz(p, Len(pesos), NAcoes), taxa)
  /\ n_evoluir' = n_evoluir + 1
  /\ deriva' = deriva + MeiaTaxa(taxa)
  /\ UNCHANGED <<fase, dominio, pc, locais, retorno, pesos_iniciais,
                 pesos_antes, evolucoes>>

\* ------------------------------------------------------- specifications
InitChamadores(chamadores) ==
  /\ pc = [t \in chamadores |-> "idle"]
  /\ realidade_vetor = [t \in chamadores |-> <<>>]
  /\ decisao_bruta = [t \in chamadores |-> <<>>]
  /\ dissonancia = [t \in chamadores |-> 0]
  /\ decisao_final = [t \in chamadores |-> <<>>]
  /\ retorno = [t \in chamadores |-> Pendente]
  /\ pesos_antes = [t \in chamadores |-> <<>>]
  /\ pesos_vistos = [t \in chamadores |-> <<>>]
  /\ evolucoes = [t \in chamadores |-> 0]
  /\ n_evoluir = 0
  /\ deriva = 0
  /\ iniciados = 0

\* Nothing is built yet.
InitCom(chamadores) ==
  /\ fase = "inicio"
  /\ dominio = [sentidos |-> <<>>, acoes_possiveis |-> <<>>]
  /\ pesos = <<>>
  /\ pesos_iniciais = <<>>
  /\ InitChamadores(chamadores)

\* One host thread calls viver_um_ciclo, one call after the other.
Init == InitCom({"h1"})

\* Two host threads call viver_um_ciclo on the same Gaia.
InitConcorrente == InitCom({"h1", "h2"})

\* dominio_web: two sensors, three actions.
dominio_web ==
  [sentidos |-> <<1, 2>>,
   acoes_possiveis |-> <<NomesAcoes[1], NomesAcoes[2], NomesAcoes[3]>>]

\* The weight matrix [[2, 0, 1], [0, 1, 3]], over PesoDen.
PesosCenario ==
  << <<2 * PesoDen, 0, PesoDen>>, <<0, PesoDen, 3 * PesoDen>> >>

\* The matrices a test assigns to gaia_instance.motor.pesos.
PesosFixados ==
  {PesosCenario} \cup
  { pesos_novos(RandMatriz(p, 2, 3)) : p \in {"coluna", "xadrez"} }

\* gaia_instance = Gaia(dominio_web), its weight matrix then assigned by a
\* test; one host thread.
InitCenario ==
  /\ fase = "gaia"
  /\ dominio = dominio_web
  /\ pesos \in PesosFixados
  /\ pesos_iniciais = pesos
  /\ InitChamadores({"h1"})

\* Dominio(...) and Gaia(dominio), for a Dominio of at most maxS sensors and
\* maxA actions and np.random.rand matrices from padroes.
Construcao(maxS, maxA, padroes) ==
  \/ \E S \in 0..maxS, A \in 0..maxA :
       \E nomes \in NomesSentidos(S) : NovoDominio(S, nomes, A)
  \/ \E p \in padroes : NovaGaia(p)

\* One step of a caller inside viver_um_ciclo: sensor readings from
\* leituras, random.random() draws from amostras, np.random.rand matrices
\* from padroes.
Ciclo(leituras, amostras, padroes) ==
  \/ \E t \in Chamadores : Iniciar(t)
  \/ \E t \in Chamadores :
       \E l \in [1..NSentidos -> leituras] : Observar(t, l)
  \/ \E t \in Chamadores : ObservarFalha(t)
  \/ \E t \in Chamadores : Pensar(t)
  \/ \E t \in Chamadores :
       \E k1 \in amostras, k2 \in amostras : Temperar(t, k1, k2)
  \/ \E t \in Chamadores : TemperarFalha(t)
  \/ \E t \in Chamadores : \E p \in padroes : Evoluir(t, p)
  \/ \E t \in Chamadores : Selecionar(t)

Next ==
  \/ Construcao(MaxSentidos, MaxAcoes, Padroes)
  \/ Ciclo(Leituras, AmostrasRand, Padroes)

\* The same steps for two callers, over fewer samples.
NextConcorrente ==
  \/ Construcao(1, MaxAcoes, {"baixo", "rampa"})
  \/ Ciclo({0, RandDenom}, {0, RandDenom - 1}, {"baixo", "rampa"})

\* The rates a direct call of evoluir is tried with.
Taxas == {0, TAXA_MUTACAO_PADRAO, 3 * TAXA_MUTACAO_PADRAO}

\* Cycles and direct evoluir calls on the fixed Gaia.
NextCenario ==
  \/ Ciclo(Leituras, AmostrasRand, {"baixo", "alto"})
  \/ \E taxa \in Taxas, p \in {"baixo", "alto"} : Mutar(taxa, p)

Spec == Init /\ [][Next]_vars

SpecConcorrente == InitConcorrente /\ [][NextConcorrente]_vars

SpecCenario == InitCenario /\ [][NextCenario]_vars

\* ------------------------------------------------------------- properties
\* The call of caller t ran to its return statement and gave back an action.
Completo(t) == pc[t] = "idle" /\ retorno[t].tipo = "acao"

\* Position i holds a first maximum of v.
PrimeiroMaximo(v, i) ==
  /\ \A j \in 1..Len(v) : v[j] <= v[i]
  /\ \A j \in 1..(i - 1) : v[j] < v[i]

\* pesos and pesos_iniciais have the same shape.
MesmaForma(W, V) ==
  /\ Len(W) = Len(V)
  /\ \A s \in 1..Len(W) : Len(W[s]) = Len(V[s])

\* C1: over a Dominio with at least one action, a call of viver_um_ciclo that
\* reaches its return statement gives back a string, and every string given
\* back is one of the entries of dominio.acoes_possiveis.
C1_RetornoEntreAcoes ==
  \A t \in Chamadores :
    /\ retorno[t].tipo = "acao" =>
         \E i \in 1..NAcoes : retorno[t].valor = dominio.acoes_possiveis[i]
    /\ (NAcoes >= 1 /\ pc[t] = "idle" /\ evolucoes[t] = 1) =>
         retorno[t].tipo = "acao"

\* A second call has completed on mutated weights and gave back the last of
\* three actions.
C1_Testemunha ==
  \E t \in Chamadores :
    /\ Completo(t)
    /\ NAcoes = 3
    /\ n_evoluir = 2
    /\ pesos # pesos_iniciais
    /\ retorno[t].valor = dominio.acoes_possiveis[3]

\* C2: a call aborted by a failing sensor read (a domain sensor or an
\* imperative sensor) is back at idle with the failure as its outcome, has
\* not called evoluir, and leaves pesos as they were when it began; and every
\* call that has ended either gave back an action after one evoluir or left
\* pesos as they were when it began.
C2_FalhaNaoMuta ==
  \A t \in Chamadores :
    /\ retorno[t] = ErroSensor =>
         /\ pc[t] = "idle"
         /\ evolucoes[t] = 0
         /\ pesos = pesos_antes[t]
    /\ (pc[t] = "idle" /\ retorno[t].tipo # "pendente") =>
         \/ retorno[t].tipo = "acao" /\ evolucoes[t] = 1
         \/ pesos = pesos_antes[t]

\* After one completed call changed the weights, a second call scored and
\* was then aborted by an imperative sensor.
C2_Testemunha ==
  \E t \in Chamadores :
    /\ retorno[t] = ErroSensor
    /\ Len(decisao_bruta[t]) >= 2
    /\ n_evoluir = 1
    /\ pesos # pesos_iniciais

\* C3: no call of viver_um_ciclo is ever in progress over a Dominio with zero
\* actions (the Dominio could not have been built).
C3_SemCicloSemAcoes ==
  \A t \in Chamadores : pc[t] # "idle" => NAcoes >= 1

\* C4: while a call has not yet reached its own evoluir, the weight matrix
\* is as it was when the call began: no other call changes it in between.
C4_SemInterferencia ==
  \A t \in Chamadores :
    pc[t] \in {"observing", "scoring", "tempering", "adapting"} =>
      pesos = pesos_antes[t]

\* C5: the action given back sits at the lowest index among the maximal
\* entries of decisao_final.
C5_EmpateMenorIndice ==
  \A t \in Chamadores :
    Completo(t) =>
      \E i \in 1..NAcoes :
        /\ retorno[t].valor = dominio.acoes_possiveis[i]
        /\ PrimeiroMaximo(decisao_final[t], i)

\* The second and third of three actions tie for the maximum, above the
\* first, and the second is given back.
C5_Testemunha ==
  \E t \in Chamadores :
    /\ Completo(t)
    /\ NAcoes = 3
    /\ decisao_final[t][2] = decisao_final[t][3]
    /\ decisao_final[t][1] < decisao_final[t][2]
    /\ retorno[t].valor = dominio.acoes_possiveis[2]

\* C6: over dominio_web (two sensors, three actions), decisao_bruta[a] is
\* obs[1] * W[1][a] + obs[2] * W[2][a], decisao_final[a] is
\* decisao_bruta[a] - d * mean(decisao_bruta), the action given back is at a
\* maximum of decisao_final; and with obs = [1, 0], W = [[2,0,1],[0,1,3]]
\* decisao_bruta is [2, 0, 1], the first action is given back for d = 0 and
\* for d = 1, and decisao_final is [1, -1, 0] for d = 1.
C6_CalculoDoCiclo ==
  \A t \in Chamadores :
    (pc[t] \in {"adapting", "selecting"} \/ Completo(t)) =>
      LET v == realidade_vetor[t]
          W == pesos_vistos[t]
          b == decisao_bruta[t]
          f == decisao_final[t]
          d == dissonancia[t]
          um == RandDenom * PesoDen
      IN /\ Len(b) = 3 /\ Len(f) = 3
         /\ \A a \in 1..3 : b[a] = v[1] * W[1][a] + v[2] * W[2][a]
         /\ \A a \in 1..3 :
              f[a] = 3 * DissDen * b[a] - d * (b[1] + b[2] + b[3])
         /\ Completo(t) =>
              \E i \in 1..3 :
                /\ retorno[t].valor = dominio.acoes_possiveis[i]
                /\ \A j \in 1..3 : f[j] <= f[i]
         /\ (v = <<RandDenom, 0>> /\ W = PesosCenario) =>
              /\ b = <<2 * um, 0, um>>
              /\ d = DissDen =>
                   f = <<3 * DissDen * um, -(3 * DissDen * um), 0>>
              /\ (d \in {0, DissDen} /\ Completo(t)) =>
                   retorno[t].valor = NomesAcoes[1]

\* The scenario with dissonance 1.0 has run to its end.
C6_Testemunha ==
  \E t \in Chamadores :
    /\ Completo(t)
    /\ realidade_vetor[t] = <<RandDenom, 0>>
    /\ pesos_vistos[t] = PesosCenario
    /\ dissonancia[t] = DissDen
    /\ retorno[t].valor = NomesAcoes[1]

\* C7: every evoluir(taxa) call, taxa >= 0, keeps the shape of pesos and
\* moves each weight by at most taxa / 2; so each weight stays within the sum
\* of taxa / 2 over the calls made (deriva: n * 0.005 after n calls, one per
\* completed cycle, at the default rate) of its initial value.
C7_MutacaoLimitada ==
  /\ [](/\ MesmaForma(pesos, pesos_iniciais)
        /\ \A s \in 1..Len(pesos) : \A a \in 1..Len(pesos[s]) :
             Abs(pesos[s][a] - pesos_iniciais[s][a]) <= deriva)
  /\ [][/\ MesmaForma(pesos', pesos)
        /\ \A s \in 1..Len(pesos) : \A a \in 1..Len(pesos[s]) :
             Abs(pesos'[s][a] - pesos[s][a]) <= deriva' - deriva]_vars

\* One direct call at three times the default rate and one completed cycle
\* have moved a weight as far as the two calls allow.
C7_Testemunha ==
  /\ n_evoluir = 2
  /\ deriva = MeiaTaxa(3 * TAXA_MUTACAO_PADRAO) + MeiaTaxa(TAXA_MUTACAO_PADRAO)
  /\ \E t \in Chamadores : Completo(t)
  /\ \E s \in 1..Len(pesos) : \E a \in 1..Len(pesos[s]) :
       pesos_iniciais[s][a] - pesos[s][a] = deriva

\* C8: two calls that scored the same observation on the same weights and
\* read the same dissonance give back the same action, whatever evoluir did
\* to the weights in between.
C8_Determinismo ==
  \A t1 \in Chamadores : \A t2 \in Chamadores :
    ( /\ Completo(t1) /\ Completo(t2)
      /\ realidade_vetor[t1] = realidade_vetor[t2]
      /\ pesos_vistos[t1] = pesos_vistos[t2]
      /\ dissonancia[t1] = dissonancia[t2] ) =>
        retorno[t1] = retorno[t2]

\* Two callers completed on equal inputs; the weights have changed twice
\* since they were scored.
C8_Testemunha ==
  \E t1 \in Chamadores : \E t2 \in Chamadores :
    /\ t1 # t2
    /\ Completo(t1) /\ Completo(t2)
    /\ NAcoes >= 2
    /\ NSentidos = 1
    /\ realidade_vetor[t1] = realidade_vetor[t2]
    /\ realidade_vetor[t1][1] # 0
    /\ pesos_vistos[t1] = pesos_vistos[t2]
    /\ dissonancia[t1] = dissonancia[t2]
    /\ pesos # pesos_vistos[t1]
    /\ n_evoluir = 2

PosicoesSeguintes(p) ==
  CASE p = "idle"      -> {"observing"}
    [] p = "observing" -> {"scoring", "idle"}
    [] p = "scoring"   -> {"tempering", "idle"}
    [] p = "tempering" -> {"adapting", "idle"}
    [] p = "adapting"  -> {"selecting"}
    [] p = "selecting" -> {"idle"}

====
